---- MODULE Spec2Model ----
(***************************************************************************)
(* Model of the Lazy CSV Viewer (src/main.py, class LazyCSVViewerGUI).     *)
(*                                                                         *)
(* Text is modelled as sequences of one-character strings, so that         *)
(* splitting a line on the delimiter and parsing the page-size entry are   *)
(* computed and not assumed.  A file is a sequence of lines; the alphabet  *)
(* of the modelled files holds no quote character, so csv.reader's         *)
(* quoting rules never apply to them.  The widgets the handlers write      *)
(* (the Treeview, the page label, the column-visibility button) are        *)
(* modelled as the values last written to them.                            *)
(***************************************************************************)
EXTENDS Integers, Sequences, FiniteSets, TLC

(***************************************************************************)
(* Bounds of the model.                                                    *)
(***************************************************************************)
\* longest generated file, in lines (header included)
MaxLines == 3
\* largest page size drawn for a single page load
MaxPageSize == 2
\* largest page index drawn for a single page load, and the cap on next_page
MaxPage == 2
\* largest column index drawn into a hidden-column set
MaxHidden == 2
\* most handlers the main thread runs beside the opener thread
MaxUiHandlers == 2

(***************************************************************************)
(* Program constants.                                                      *)
(***************************************************************************)
\* self.page_size = 200
DefaultPageSize == 200

\* self.file_path = None
None == "None"

\* the empty string "", the value a short row is padded with
EmptyStr == <<>>

\* self.delimiter_options: (delimiter, display text)
delimiter_options ==
    << <<",", "Comma (,)">>,
       <<"\t", "Tab (\\t)">>,
       <<";", "Semicolon (;)">>,
       <<"|", "Pipe (|)">>,
       <<" ", "Space ( )">> >>

Delimiters == { delimiter_options[i][1] : i \in 1..Len(delimiter_options) }
Displays == { delimiter_options[i][2] : i \in 1..Len(delimiter_options) }

(***************************************************************************)
(* Sequence helpers.                                                       *)
(***************************************************************************)
Min(a, b) == IF a < b THEN a ELSE b

Max(a, b) == IF a < b THEN b ELSE a

Range(s) == { s[i] : i \in 1..Len(s) }

\* all sequences over S of length 0..n
SeqsUpTo(S, n) == UNION { [1..k -> S] : k \in 0..n }

\* [x] * n of Python: n copies of x, none when n <= 0
Repeat(x, n) == [i \in 1..Max(n, 0) |-> x]

\* the elements of a finite set of integers in ascending order
RECURSIVE SortedSeq(_)
SortedSeq(S) ==
    IF S = {} THEN <<>>
    ELSE LET m == CHOOSE x \in S : \A y \in S : x <= y
         IN <<m>> \o SortedSeq(S \ {m})

(***************************************************************************)
(* csv.reader: one record per line, fields split on the delimiter.  An     *)
(* empty line is the record []; "a," is the record ["a", ""].              *)
(***************************************************************************)
RECURSIVE SplitFields(_, _, _)
SplitFields(chars, delim, field) ==
    IF chars = <<>> THEN <<field>>
    ELSE IF Head(chars) = delim
         THEN <<field>> \o SplitFields(Tail(chars), delim, EmptyStr)
         ELSE SplitFields(Tail(chars), delim, Append(field, Head(chars)))

ParseRecord(line, delim) ==
    IF line = <<>> THEN <<>> ELSE SplitFields(line, delim, EmptyStr)

(***************************************************************************)
(* int(text) of Python for the page-size entry: surrounding blanks are     *)
(* stripped, one sign is allowed, and at least one digit must follow.      *)
(* The result is [ok |-> FALSE] for ValueError.                            *)
(***************************************************************************)
Digits == <<"0", "1", "2", "3", "4", "5", "6", "7", "8", "9">>

IsDigit(c) == c \in Range(Digits)

DigitVal(c) == (CHOOSE i \in 1..10 : Digits[i] = c) - 1

RECURSIVE Strip(_)
Strip(s) ==
    IF s = <<>> THEN s
    ELSE IF Head(s) = " " THEN Strip(Tail(s))
    ELSE IF s[Len(s)] = " " THEN Strip(SubSeq(s, 1, Len(s) - 1))
    ELSE s

RECURSIVE DigitsValue(_)
DigitsValue(s) ==
    IF s = <<>> THEN 0
    ELSE 10 * DigitsValue(SubSeq(s, 1, Len(s) - 1)) + DigitVal(s[Len(s)])

ParseInt(text) ==
    LET t == Strip(text)
        signed == t # <<>> /\ Head(t) \in {"-", "+"}
        body == IF signed THEN Tail(t) ELSE t
        ok == body # <<>> /\ \A i \in 1..Len(body) : IsDigit(body[i])
    IN IF ~ok THEN [ok |-> FALSE, value |-> 0]
       ELSE [ok |-> TRUE,
             value |-> IF signed /\ Head(t) = "-" THEN 0 - DigitsValue(body)
                       ELSE DigitsValue(body)]

\* str(n)
RECURSIVE IntToStr(_)
IntToStr(n) ==
    IF n < 0 THEN <<"-">> \o IntToStr(0 - n)
    ELSE IF n < 10 THEN <<Digits[n + 1]>>
    ELSE IntToStr(n \div 10) \o <<Digits[(n % 10) + 1]>>

(***************************************************************************)
(* Files.  A file is its lines plus how reading it goes: readable = FALSE  *)
(* makes open() raise; failAt = k > 0 makes the read of line k raise (a    *)
(* decoding or device error); failAt = 0 is a file that reads without      *)
(* error.                                                                  *)
(***************************************************************************)
File(lines, failAt) == [readable |-> TRUE, lines |-> lines, failAt |-> failAt]

Unreadable == [readable |-> FALSE, lines |-> <<>>, failAt |-> 0]

Line_abc == <<"a", ",", "b", ",", "c">>
Line_123 == <<"1", ",", "2", ",", "3">>
Line_45 == <<"4", ",", "5">>
Line_6789 == <<"6", ",", "7", ",", "8", ",", "9">>

Line_ab == <<"a", ",", "b">>
Line_12 == <<"1", ",", "2">>
Line_4 == <<"4">>
Line_678 == <<"6", ",", "7", ",", "8">>

\* header a,b,c and the rows 1,2,3 / 4,5 / 6,7,8,9
RaggedLines == <<Line_abc, Line_123, Line_45, Line_6789>>

\* header a,b and the rows 1,2 / 4 / 6,7,8: a full, a short and a long row
SmallLines == <<Line_ab, Line_12, Line_4, Line_678>>

\* the lines generated files are made of; as header and rows they give rows
\* shorter than, as long as and longer than the header
LineChoices == {Line_abc, Line_6789, Line_45}

GeneratedFiles ==
    UNION { { File(ls, k) : k \in 0..Len(ls) } : ls \in SeqsUpTo(LineChoices, MaxLines) }

\* the file system of the viewer runs
Paths == {"ragged.csv", "empty.csv", "broken.csv", "locked.csv"}

Disk ==
    [p \in Paths |->
        CASE p = "ragged.csv" -> File(SmallLines, 0)
          [] p = "empty.csv" -> File(<<>>, 0)
          [] p = "broken.csv" -> File(SmallLines, 3)
          [] p = "locked.csv" -> Unreadable]

(***************************************************************************)
(* State.                                                                  *)
(***************************************************************************)
VARIABLES
    disk,                \* path -> file; the files are not modified
    file_path,           \* self.file_path
    page_size,           \* self.page_size
    current_page,        \* self.current_page
    has_next_page,       \* self.has_next_page
    delimiter,           \* self.delimiter
    hidden_columns,      \* self.hidden_columns
    column_headers,      \* self.column_headers
    tree_columns,        \* self.tree["columns"]
    tree_headings,       \* the heading text of each column of the tree
    tree_rows,           \* the rows of the tree, [values, tags] each
    page_label,          \* the text of self.page_label
    button_state,        \* the state of self.column_visibility_button
    outcome,             \* how the load of the last handler ended
    last_op,             \* the handler that ran last
    loads                \* per thread: the locals of its _load_page call

vars ==
    <<disk, file_path, page_size, current_page, has_next_page, delimiter,
      hidden_columns, column_headers, tree_columns, tree_headings,
      tree_rows, page_label, button_state, outcome, last_op, loads>>

\* the threads that run handlers: the opener thread started by __init__
\* (_open_file_from_thread) and the Tk main thread
Procs == {"opener", "ui"}

\* the attribute values a load found when it was entered
NoArgs == [path |-> None, delim |-> "", psize |-> 0, page |-> 0, hidden |-> {}]

\* the locals of a thread that is in no handler: pc is its position, op the
\* handler it runs, handle whether its file object f is open, how the way
\* its load ended, runs the number of handlers it has run
IdleLoad ==
    [pc |-> "idle", op |-> "", handle |-> FALSE, start |-> 0, path |-> None,
     delim |-> "", pos |-> 0, header |-> <<>>, visible_columns |-> <<>>,
     row_count |-> 0, how |-> "none", args |-> NoArgs, runs |-> 0]

IdleLoads == [p \in Procs |-> IdleLoad]

\* what _load_page may write
display ==
    [column_headers |-> column_headers, button_state |-> button_state,
     tree_columns |-> tree_columns, tree_headings |-> tree_headings,
     tree_rows |-> tree_rows, has_next_page |-> has_next_page,
     outcome |-> outcome]

\* f"Page {n}"
PageText(n) == <<"P", "a", "g", "e", " ">> \o IntToStr(n)

(***************************************************************************)
(* _load_page.                                                             *)
(***************************************************************************)
\* next(reader) on a reader that has consumed pos - 1 lines
ReadNext(file, delim, pos) ==
    IF pos > Len(file.lines) THEN [kind |-> "StopIteration"]
    ELSE IF pos = file.failAt THEN [kind |-> "raise"]
    ELSE [kind |-> "row", row |-> ParseRecord(file.lines[pos], delim)]

\* mutant of VisibleColumns: the visible indices are not put in ascending
\* order (here: descending)
RECURSIVE Reverse(_)
Reverse(q) == IF q = <<>> THEN q ELSE Append(Reverse(Tail(q)), Head(q))

VisibleColumnsUnordered(header, hidden) ==
    Reverse(SortedSeq({ i \in 0..(Len(header) - 1) : i \notin hidden }))

\* mutant of VisibleColumns: a hidden index beyond the header hides the last
\* column
VisibleColumnsClamped(header, hidden) ==
    SortedSeq({ i \in 0..(Len(header) - 1) :
                  /\ i \notin hidden
                  /\ ~(i = Len(header) - 1 /\ \E h \in hidden : h >= Len(header)) })

\* visible_columns = [i for i in range(len(header)) if i not in hidden_columns]
VisibleColumns(header, hidden) ==
    SortedSeq({ i \in 0..(Len(header) - 1) : i \notin hidden })

\* mutant of PadRow: the padding is put in front of the fields
PadRowInFront(row, header) == Repeat(EmptyStr, Len(header) - Len(row)) \o row

\* padded_row = row + [""] * (len(header) - len(row))
PadRow(row, header) == row \o Repeat(EmptyStr, Len(header) - Len(row))

\* mutant of VisibleRow: with no column hidden the padded row is passed on as
\* it is
VisibleRowPassThrough(padded_row, visible_columns) ==
    IF visible_columns = [k \in 1..Len(visible_columns) |-> k - 1]
       /\ Len(visible_columns) <= Len(padded_row)
    THEN padded_row
    ELSE [k \in 1..Len(visible_columns) |-> padded_row[visible_columns[k] + 1]]

\* visible_row = [padded_row[i] for i in visible_columns]
VisibleRow(padded_row, visible_columns) ==
    [k \in 1..Len(visible_columns) |-> padded_row[visible_columns[k] + 1]]

\* tag = "odd" if row_count % 2 else "even"
StripeTag(row_count) == IF row_count % 2 # 0 THEN "odd" ELSE "even"

\* mutant of Start: the page index taken as one-based
StartOneBased(page, psize) == (page + 1) * psize

\* start = self.current_page * self.page_size
Start(page, psize) == page * psize

\* mutant of RowFits: the comparison off by one
RowFitsInclusive(row_count, psize) == row_count <= psize

\* if row_count < self.page_size
RowFits(row_count, psize) == row_count < psize

\* mutant of HasNextAfter: the else branch of the row loop is missing
HasNextNoElse(end, old_has_next) ==
    IF end = "break" THEN TRUE ELSE old_has_next

\* self.has_next_page after the row loop: True at its break, False in its
\* else branch, not assigned when the loop raised
HasNextAfter(end, old_has_next) ==
    CASE end = "break" -> TRUE
      [] end = "else" -> FALSE
      [] OTHER -> old_has_next

\* mutant of SkipRows: StopIteration is not caught in the skip loop
RECURSIVE SkipRowsNoCatch(_, _, _, _)
SkipRowsNoCatch(file, delim, pos, left) ==
    IF left <= 0 THEN [pos |-> pos, raised |-> FALSE]
    ELSE LET r == ReadNext(file, delim, pos)
         IN IF r.kind # "row" THEN [pos |-> pos, raised |-> TRUE]
            ELSE SkipRowsNoCatch(file, delim, pos + 1, left - 1)

\* for _ in range(start): next(reader), leaving the loop on StopIteration
RECURSIVE SkipRows(_, _, _, _)
SkipRows(file, delim, pos, left) ==
    IF left <= 0 THEN [pos |-> pos, raised |-> FALSE]
    ELSE LET r == ReadNext(file, delim, pos)
         IN CASE r.kind = "StopIteration" -> [pos |-> pos, raised |-> FALSE]
              [] r.kind = "raise" -> [pos |-> pos, raised |-> TRUE]
              [] OTHER -> SkipRows(file, delim, pos + 1, left - 1)

\* for row in reader: ... else: ...; end is "break", "else" or "raise"
RECURSIVE CollectRows(_, _, _, _, _, _, _)
CollectRows(file, delim, header, visible_columns, psize, pos, rows) ==
    LET r == ReadNext(file, delim, pos)
        row_count == Len(rows)
    IN CASE r.kind = "StopIteration" -> [rows |-> rows, end |-> "else"]
         [] r.kind = "raise" -> [rows |-> rows, end |-> "raise"]
         [] OTHER ->
            IF RowFits(row_count, psize)
            THEN CollectRows(file, delim, header, visible_columns, psize, pos + 1,
                     Append(rows,
                         [values |-> VisibleRow(PadRow(r.row, header), visible_columns),
                          tags |-> StripeTag(row_count)]))
            ELSE [rows |-> rows, end |-> "break"]

\* mutant of RaisedBeforeHeader: the tree is cleared before the header is
\* read
ClearedBeforeHeader(old) == [old EXCEPT !.tree_rows = <<>>, !.outcome = "error"]

\* open() or next(reader) for the header raises: nothing was assigned yet
RaisedBeforeHeader(old) == [old EXCEPT !.outcome = "error"]

\* the display after _load_page, and how the load ended: "none" (no file
\* set, nothing done), "ok", or "error" (an exception left the method)
LoadPage(file, delim, psize, page, hidden, old) ==
    LET start == Start(page, psize)
        first == ReadNext(file, delim, 1)
    IN IF ~file.readable \/ first.kind # "row" THEN RaisedBeforeHeader(old)
       ELSE
         LET header == first.row
             visible_columns == VisibleColumns(header, hidden)
             skipped == SkipRows(file, delim, 2, start)
             cleared ==
                 [old EXCEPT !.column_headers = header,
                             !.button_state = "normal",
                             !.tree_rows = <<>>,
                             !.tree_columns = visible_columns,
                             !.tree_headings =
                                 [k \in 1..Len(visible_columns) |->
                                     header[visible_columns[k] + 1]]]
         IN IF skipped.raised THEN [cleared EXCEPT !.outcome = "error"]
            ELSE
              LET got == CollectRows(file, delim, header, visible_columns, psize,
                                     skipped.pos, <<>>)
              IN [cleared EXCEPT
                     !.tree_rows = got.rows,
                     !.has_next_page = HasNextAfter(got.end, old.has_next_page),
                     !.outcome = IF got.end = "raise" THEN "error" ELSE "ok"]

\* self._load_page() with the given attribute values: nothing is done when no
\* file is set
LoadResult(path, delim, psize, page, hidden) ==
    IF path = None THEN [display EXCEPT !.outcome = "none"]
    ELSE LoadPage(disk[path], delim, psize, page, hidden, display)

\* the assignments of a _load_page call to the display
SetDisplay(new) ==
    /\ column_headers' = new.column_headers
    /\ button_state' = new.button_state
    /\ tree_columns' = new.tree_columns
    /\ tree_headings' = new.tree_headings
    /\ tree_rows' = new.tree_rows
    /\ has_next_page' = new.has_next_page
    /\ outcome' = new.outcome

(***************************************************************************)
(* A single page load: the arguments are drawn, _load_page runs on them.   *)
(***************************************************************************)
LoadInit ==
    /\ \E f \in GeneratedFiles \cup {File(RaggedLines, 0)} :
           disk = [p \in {"drawn.csv"} |-> f]
    /\ file_path = "drawn.csv"
    /\ page_size \in 1..MaxPageSize
    /\ current_page \in 0..MaxPage
    /\ delimiter \in Delimiters
    /\ hidden_columns \in SUBSET (0..MaxHidden)
    /\ has_next_page \in BOOLEAN
    /\ column_headers = <<>>
    /\ tree_columns = <<>>
    /\ tree_headings = <<>>
    /\ tree_rows = <<>>
    /\ page_label = PageText(1)
    /\ button_state = "disabled"
    /\ outcome = "none"
    /\ last_op = "__init__"
    /\ loads = IdleLoads

load_page ==
    /\ outcome = "none"
    /\ last_op' = "_load_page"
    /\ SetDisplay(LoadResult(file_path, delimiter, page_size, current_page,
                             hidden_columns))
    /\ UNCHANGED <<disk, loads, file_path, page_size, current_page, delimiter,
                   hidden_columns, page_label>>

LoadNext == load_page

SpecLoad == LoadInit /\ [][LoadNext]_vars

(***************************************************************************)
(* The viewer: the state after __init__ and one action per handler.  A     *)
(* handler whose load raises stops there: what it assigned before the      *)
(* load stays, what follows the load is not executed.                      *)
(***************************************************************************)
\* the entries of the delimiter dropdown the user picks: one that splits the
\* lines of the modelled files and one that, like the initial tab, does not
DisplayChoices == {"Comma (,)", "Semicolon (;)"}

\* the texts typed into the page-size entry
PageSizeTexts ==
    { <<"1">>, <<" ", "2">>, <<"0">>, <<"-", "1">>, <<"x">> }

\* the attributes and widgets after __init__
Constructed ==
    /\ file_path = None
    /\ page_size = DefaultPageSize
    /\ current_page = 0
    /\ has_next_page = FALSE
    /\ delimiter = "\t"
    /\ hidden_columns = {}
    /\ column_headers = <<>>
    /\ tree_columns = <<>>
    /\ tree_headings = <<>>
    /\ tree_rows = <<>>
    /\ page_label = PageText(1)
    /\ button_state = "disabled"
    /\ outcome = "none"
    /\ last_op = "__init__"
    /\ loads = IdleLoads

Init == disk = Disk /\ Constructed

\* mutant of ClearedHidden: the hidden columns of the previous file are kept
HiddenKept == hidden_columns

\* self.hidden_columns.clear()
ClearedHidden == {}

\* open_file with the dialog answering path; "" is a cancelled dialog
open_file(path) ==
    IF path # ""
    THEN /\ file_path' = path
         /\ current_page' = 0
         /\ hidden_columns' = ClearedHidden
         /\ SetDisplay(LoadResult(path, delimiter, page_size, 0, ClearedHidden))
         /\ last_op' = "open_file"
         /\ UNCHANGED <<disk, loads, page_size, delimiter, page_label>>
    ELSE /\ outcome' = "none"
         /\ last_op' = "open_file"
         /\ UNCHANGED <<disk, loads, file_path, page_size, current_page, has_next_page,
                        delimiter, hidden_columns, column_headers, tree_columns,
                        tree_headings, tree_rows, page_label, button_state>>

next_page ==
    IF has_next_page
    THEN /\ current_page < MaxPage
         /\ current_page' = current_page + 1
         /\ LET new == LoadResult(file_path, delimiter, page_size,
                                  current_page + 1, hidden_columns)
            IN /\ SetDisplay(new)
               /\ page_label' = IF new.outcome = "error" THEN page_label
                                ELSE PageText(current_page + 1 + 1)
         /\ last_op' = "next_page"
         /\ UNCHANGED <<disk, loads, file_path, page_size, delimiter, hidden_columns>>
    ELSE /\ outcome' = "none"
         /\ last_op' = "next_page"
         /\ UNCHANGED <<disk, loads, file_path, page_size, current_page, has_next_page,
                        delimiter, hidden_columns, column_headers, tree_columns,
                        tree_headings, tree_rows, page_label, button_state>>

\* mutant of CanGoBack: the first page is not excluded
CanGoBackFromFirst(page) == page >= 0

\* if self.current_page > 0
CanGoBack(page) == page > 0

prev_page ==
    IF CanGoBack(current_page)
    THEN /\ current_page' = current_page - 1
         /\ LET new == LoadResult(file_path, delimiter, page_size,
                                  current_page - 1, hidden_columns)
            IN /\ SetDisplay(new)
               /\ page_label' = IF new.outcome = "error" THEN page_label
                                ELSE PageText(current_page - 1 + 1)
         /\ last_op' = "prev_page"
         /\ UNCHANGED <<disk, loads, file_path, page_size, delimiter, hidden_columns>>
    ELSE /\ outcome' = "none"
         /\ last_op' = "prev_page"
         /\ UNCHANGED <<disk, loads, file_path, page_size, current_page, has_next_page,
                        delimiter, hidden_columns, column_headers, tree_columns,
                        tree_headings, tree_rows, page_label, button_state>>

\* mutant of ValidPageSize: zero is let through
ValidPageSizeOrZero(new_page_size) == new_page_size >= 0

\* if new_page_size > 0
ValidPageSize(new_page_size) == new_page_size > 0

\* _on_page_size_changed, the Apply button, with text in the page-size entry
\* (self.page_size_var.get())
on_page_size_changed(text) ==
    LET new_page_size == ParseInt(text)
    IN IF new_page_size.ok /\ ValidPageSize(new_page_size.value)
       THEN /\ page_size' = new_page_size.value
            /\ current_page' = 0
            /\ SetDisplay(LoadResult(file_path, delimiter, new_page_size.value, 0,
                                     hidden_columns))
            /\ last_op' = "on_page_size_changed"
            /\ UNCHANGED <<disk, loads, file_path, delimiter, hidden_columns, page_label>>
       ELSE /\ outcome' = "none"
            /\ last_op' = "on_page_size_changed"
            /\ UNCHANGED <<disk, loads, file_path, page_size, current_page,
                           has_next_page, delimiter, hidden_columns,
                           column_headers, tree_columns, tree_headings,
                           tree_rows, page_label, button_state>>

\* mutant of FindDelimiter: the selection is compared with the delimiter, not
\* with its display text
RECURSIVE FindDelimiterByValue(_, _, _)
FindDelimiterByValue(selected_display, i, current) ==
    IF i > Len(delimiter_options) THEN current
    ELSE IF delimiter_options[i][1] = selected_display
         THEN delimiter_options[i][1]
         ELSE FindDelimiterByValue(selected_display, i + 1, current)

\* for delim, display in self.delimiter_options: if display == selected_display
RECURSIVE FindDelimiter(_, _, _)
FindDelimiter(selected_display, i, current) ==
    IF i > Len(delimiter_options) THEN current
    ELSE IF delimiter_options[i][2] = selected_display
         THEN delimiter_options[i][1]
         ELSE FindDelimiter(selected_display, i + 1, current)

\* _on_delimiter_changed with the dropdown showing selected_display
on_delimiter_changed(selected_display) ==
    LET delim == FindDelimiter(selected_display, 1, delimiter)
    IN /\ delimiter' = delim
       /\ SetDisplay(LoadResult(file_path, delim, page_size, current_page,
                                hidden_columns))
       /\ last_op' = "on_delimiter_changed"
       /\ UNCHANGED <<disk, loads, file_path, page_size, current_page, hidden_columns,
                      page_label>>

\* _show_column_selector followed by Apply: column_vars[i] is the checkbox of
\* column i of self.column_headers
apply_column_visibility(column_vars) ==
    /\ button_state = "normal"
    /\ column_headers # <<>>
    /\ hidden_columns' = { i \in DOMAIN column_vars : ~column_vars[i] }
    /\ SetDisplay(LoadResult(file_path, delimiter, page_size, current_page,
                             { i \in DOMAIN column_vars : ~column_vars[i] }))
    /\ last_op' = "apply_column_visibility"
    /\ UNCHANGED <<disk, loads, file_path, page_size, current_page, delimiter, page_label>>

Next ==
    \/ \E path \in (DOMAIN disk) \cup {""} : open_file(path)
    \/ next_page
    \/ prev_page
    \/ \E text \in PageSizeTexts : on_page_size_changed(text)
    \/ \E selected_display \in DisplayChoices : on_delimiter_changed(selected_display)
    \/ \E column_vars \in [0..(Len(column_headers) - 1) -> BOOLEAN] :
           apply_column_visibility(column_vars)

Spec == Init /\ [][Next]_vars

(***************************************************************************)
(* The viewer on a file system of files that all open, have a header and   *)
(* read without error.                                                     *)
(***************************************************************************)
GoodPaths == {"ragged.csv", "single.csv", "header.csv"}

GoodDisk ==
    [p \in GoodPaths |->
        CASE p = "ragged.csv" -> File(SmallLines, 0)
          [] p = "single.csv" -> File(<<Line_ab, Line_678>>, 0)
          [] p = "header.csv" -> File(<<Line_ab>>, 0)]

GoodInit == disk = GoodDisk /\ Constructed

SpecGood == GoodInit /\ [][Next]_vars

(***************************************************************************)
(* _load_page statement by statement.  Each thread has its own locals      *)
(* (start, f, reader, header, visible_columns, row_count); the attributes  *)
(* of self and the widgets are shared.  A step is a stretch of the method  *)
(* between two accesses of shared state; threads interleave between steps. *)
(***************************************************************************)
\* mutant of HandleAfterWith: f is closed by a statement at the end of the
\* body, which an exception skips
HandleClosedAtEndOfBody(how) == how = "error"

\* with open(...) as f: f is closed when the block is left, however it is
\* left; TRUE means still open
HandleAfterWith(how) == FALSE

\* if not self.file_path: return / start = self.current_page * self.page_size
load_enter(p) ==
    /\ loads[p].pc = "enter"
    /\ loads' = [loads EXCEPT ![p] =
          IF file_path = None
          THEN [@ EXCEPT !.pc = "return", !.how = "none"]
          ELSE [@ EXCEPT !.pc = "open",
                         !.start = Start(current_page, page_size),
                         !.args = [path |-> file_path, delim |-> delimiter,
                                   psize |-> page_size, page |-> current_page,
                                   hidden |-> hidden_columns]]]
    /\ UNCHANGED <<disk, file_path, page_size, current_page, has_next_page,
                   delimiter, hidden_columns, column_headers, tree_columns,
                   tree_headings, tree_rows, page_label, button_state,
                   outcome, last_op>>

\* open(self.file_path, ...): raises when the file cannot be opened
load_open(p) ==
    /\ loads[p].pc = "open"
    /\ loads' = [loads EXCEPT ![p] =
          IF file_path = None \/ ~disk[file_path].readable
          THEN [@ EXCEPT !.pc = "return", !.how = "error"]
          ELSE [@ EXCEPT !.pc = "header", !.handle = TRUE,
                         !.path = file_path]]
    /\ UNCHANGED <<disk, file_path, page_size, current_page, has_next_page,
                   delimiter, hidden_columns, column_headers, tree_columns,
                   tree_headings, tree_rows, page_label, button_state,
                   outcome, last_op>>

\* reader = csv.reader(f, delimiter=self.delimiter); header = next(reader)
load_header(p) ==
    /\ loads[p].pc = "header"
    /\ LET first == ReadNext(disk[loads[p].path], delimiter, 1)
       IN loads' = [loads EXCEPT ![p] =
             IF first.kind # "row"
             THEN [@ EXCEPT !.pc = "exit", !.how = "error", !.delim = delimiter]
             ELSE [@ EXCEPT !.pc = "setup", !.delim = delimiter,
                            !.header = first.row, !.pos = 2]]
    /\ UNCHANGED <<disk, file_path, page_size, current_page, has_next_page,
                   delimiter, hidden_columns, column_headers, tree_columns,
                   tree_headings, tree_rows, page_label, button_state,
                   outcome, last_op>>

\* self.column_headers = header ... self.tree.heading(i, text=header[i])
load_setup(p) ==
    /\ loads[p].pc = "setup"
    /\ LET header == loads[p].header
           visible_columns == VisibleColumns(header, hidden_columns)
       IN /\ column_headers' = header
          /\ button_state' = "normal"
          /\ tree_rows' = <<>>
          /\ tree_columns' = visible_columns
          /\ tree_headings' = [k \in 1..Len(visible_columns) |->
                                  header[visible_columns[k] + 1]]
          /\ loads' = [loads EXCEPT ![p] =
                [@ EXCEPT !.pc = "skip", !.visible_columns = visible_columns]]
    /\ UNCHANGED <<disk, file_path, page_size, current_page, has_next_page,
                   delimiter, hidden_columns, page_label, outcome, last_op>>

\* for _ in range(start): next(reader) ...; row_count = 0
load_skip(p) ==
    /\ loads[p].pc = "skip"
    /\ LET skipped == SkipRows(disk[loads[p].path], loads[p].delim,
                               loads[p].pos, loads[p].start)
       IN loads' = [loads EXCEPT ![p] =
             IF skipped.raised
             THEN [@ EXCEPT !.pc = "exit", !.how = "error"]
             ELSE [@ EXCEPT !.pc = "rows", !.pos = skipped.pos,
                            !.row_count = 0]]
    /\ UNCHANGED <<disk, file_path, page_size, current_page, has_next_page,
                   delimiter, hidden_columns, column_headers, tree_columns,
                   tree_headings, tree_rows, page_label, button_state,
                   outcome, last_op>>

\* one turn of for row in reader: ... else: ...
load_row(p) ==
    /\ loads[p].pc = "rows"
    /\ LET l == loads[p]
           r == ReadNext(disk[l.path], l.delim, l.pos)
       IN CASE r.kind = "StopIteration" ->
                 /\ has_next_page' = HasNextAfter("else", has_next_page)
                 /\ tree_rows' = tree_rows
                 /\ loads' = [loads EXCEPT ![p] =
                       [@ EXCEPT !.pc = "exit", !.how = "ok"]]
            [] r.kind = "raise" ->
                 /\ has_next_page' = HasNextAfter("raise", has_next_page)
                 /\ tree_rows' = tree_rows
                 /\ loads' = [loads EXCEPT ![p] =
                       [@ EXCEPT !.pc = "exit", !.how = "error"]]
            [] OTHER ->
                 IF RowFits(l.row_count, page_size)
                 THEN /\ tree_rows' = Append(tree_rows,
                             [values |-> VisibleRow(PadRow(r.row, l.header),
                                                    l.visible_columns),
                              tags |-> StripeTag(l.row_count)])
                      /\ has_next_page' = has_next_page
                      /\ loads' = [loads EXCEPT ![p] =
                            [@ EXCEPT !.pos = l.pos + 1,
                                      !.row_count = l.row_count + 1]]
                 ELSE /\ has_next_page' = HasNextAfter("break", has_next_page)
                      /\ tree_rows' = tree_rows
                      /\ loads' = [loads EXCEPT ![p] =
                            [@ EXCEPT !.pc = "exit", !.how = "ok"]]
    /\ UNCHANGED <<disk, file_path, page_size, current_page, delimiter,
                   hidden_columns, column_headers, tree_columns,
                   tree_headings, page_label, button_state, outcome, last_op>>

\* the with block is left, by its end or by an exception
load_exit(p) ==
    /\ loads[p].pc = "exit"
    /\ loads' = [loads EXCEPT ![p] =
          [@ EXCEPT !.pc = "return",
                    !.handle = HandleAfterWith(loads[p].how)]]
    /\ UNCHANGED <<disk, file_path, page_size, current_page, has_next_page,
                   delimiter, hidden_columns, column_headers, tree_columns,
                   tree_headings, tree_rows, page_label, button_state,
                   outcome, last_op>>

\* _load_page has returned or raised: the rest of the handler that called
\* it, which an exception skips
handler_return(p) ==
    /\ loads[p].pc = "return"
    /\ LET l == loads[p]
       IN /\ page_label' =
                IF l.op \in {"next_page", "prev_page"} /\ l.how # "error"
                THEN PageText(current_page + 1)
                ELSE page_label
          /\ button_state' =
                IF l.op = "open_file" /\ l.how # "error"
                THEN "normal"
                ELSE button_state
          /\ outcome' = l.how
          /\ last_op' = l.op
          /\ loads' = [loads EXCEPT ![p] = [@ EXCEPT !.pc = "idle"]]
    /\ UNCHANGED <<disk, file_path, page_size, current_page, has_next_page,
                   delimiter, hidden_columns, column_headers, tree_columns,
                   tree_headings, tree_rows>>

(***************************************************************************)
(* A single page load taken statement by statement, on drawn arguments.    *)
(***************************************************************************)
StepsInit ==
    /\ \E f \in GeneratedFiles \cup {Unreadable} :
           disk = [p \in {"drawn.csv"} |-> f]
    /\ file_path = "drawn.csv"
    /\ page_size \in 1..MaxPageSize
    /\ current_page \in 0..MaxPage
    /\ delimiter = ","
    /\ hidden_columns \in SUBSET (0..MaxHidden)
    /\ has_next_page \in BOOLEAN
    /\ column_headers = <<>>
    /\ tree_columns = <<>>
    /\ tree_headings = <<>>
    /\ tree_rows = <<>>
    /\ page_label = PageText(1)
    /\ button_state = "disabled"
    /\ outcome = "none"
    /\ last_op = "__init__"
    /\ loads = [IdleLoads EXCEPT !["ui"] =
                   [@ EXCEPT !.pc = "enter", !.op = "_load_page"]]

StepsNext ==
    \E p \in Procs :
        \/ load_enter(p)
        \/ load_open(p)
        \/ load_header(p)
        \/ load_setup(p)
        \/ load_skip(p)
        \/ load_row(p)
        \/ load_exit(p)
        \/ handler_return(p)

SpecSteps == StepsInit /\ [][StepsNext]_vars

(***************************************************************************)
(* The opener thread and the main thread.  __init__ starts a thread that   *)
(* calls open_file once (_open_file_from_thread); the main thread runs the *)
(* handlers of the widgets.  A handler begins with its own statements up   *)
(* to the call of _load_page, goes through the load step by step, and      *)
(* ends in handler_return.                                                 *)
(***************************************************************************)
\* the opener thread runs one handler and ends
MaxHandlers(p) == IF p = "opener" THEN 1 ELSE MaxUiHandlers

CanBegin(p) == loads[p].pc = "idle" /\ loads[p].runs < MaxHandlers(p)

\* the locals of thread p when it calls _load_page from handler op
Calling(p, op) ==
    [IdleLoad EXCEPT !.pc = "enter", !.op = op, !.handle = loads[p].handle,
                     !.runs = loads[p].runs + 1]

\* the locals of thread p after a handler op that did not call _load_page
NotCalling(p, op) ==
    [loads[p] EXCEPT !.op = op, !.runs = loads[p].runs + 1]

begin_open_file(p, path) ==
    /\ CanBegin(p)
    /\ IF path # ""
       THEN /\ file_path' = path
            /\ current_page' = 0
            /\ hidden_columns' = ClearedHidden
            /\ loads' = [loads EXCEPT ![p] = Calling(p, "open_file")]
            /\ UNCHANGED <<outcome, last_op>>
       ELSE /\ loads' = [loads EXCEPT ![p] = NotCalling(p, "open_file")]
            /\ outcome' = "none"
            /\ last_op' = "open_file"
            /\ UNCHANGED <<file_path, current_page, hidden_columns>>
    /\ UNCHANGED <<disk, page_size, has_next_page, delimiter, column_headers,
                   tree_columns, tree_headings, tree_rows, page_label,
                   button_state>>

begin_next_page(p) ==
    /\ CanBegin(p)
    /\ IF has_next_page
       THEN /\ current_page < MaxPage
            /\ current_page' = current_page + 1
            /\ loads' = [loads EXCEPT ![p] = Calling(p, "next_page")]
            /\ UNCHANGED <<outcome, last_op>>
       ELSE /\ loads' = [loads EXCEPT ![p] = NotCalling(p, "next_page")]
            /\ outcome' = "none"
            /\ last_op' = "next_page"
            /\ UNCHANGED current_page
    /\ UNCHANGED <<disk, file_path, page_size, has_next_page, delimiter,
                   hidden_columns, column_headers, tree_columns,
                   tree_headings, tree_rows, page_label, button_state>>

begin_prev_page(p) ==
    /\ CanBegin(p)
    /\ IF CanGoBack(current_page)
       THEN /\ current_page' = current_page - 1
            /\ loads' = [loads EXCEPT ![p] = Calling(p, "prev_page")]
            /\ UNCHANGED <<outcome, last_op>>
       ELSE /\ loads' = [loads EXCEPT ![p] = NotCalling(p, "prev_page")]
            /\ outcome' = "none"
            /\ last_op' = "prev_page"
            /\ UNCHANGED current_page
    /\ UNCHANGED <<disk, file_path, page_size, has_next_page, delimiter,
                   hidden_columns, column_headers, tree_columns,
                   tree_headings, tree_rows, page_label, button_state>>

begin_page_size_changed(p, text) ==
    /\ CanBegin(p)
    /\ LET new_page_size == ParseInt(text)
       IN IF new_page_size.ok /\ ValidPageSize(new_page_size.value)
          THEN /\ page_size' = new_page_size.value
               /\ current_page' = 0
               /\ loads' = [loads EXCEPT ![p] =
                               Calling(p, "on_page_size_changed")]
               /\ UNCHANGED <<outcome, last_op>>
          ELSE /\ loads' = [loads EXCEPT ![p] =
                               NotCalling(p, "on_page_size_changed")]
               /\ outcome' = "none"
               /\ last_op' = "on_page_size_changed"
               /\ UNCHANGED <<page_size, current_page>>
    /\ UNCHANGED <<disk, file_path, has_next_page, delimiter, hidden_columns,
                   column_headers, tree_columns, tree_headings, tree_rows,
                   page_label, button_state>>

begin_delimiter_changed(p, selected_display) ==
    /\ CanBegin(p)
    /\ delimiter' = FindDelimiter(selected_display, 1, delimiter)
    /\ loads' = [loads EXCEPT ![p] = Calling(p, "on_delimiter_changed")]
    /\ UNCHANGED <<disk, file_path, page_size, current_page, has_next_page,
                   hidden_columns, column_headers, tree_columns,
                   tree_headings, tree_rows, page_label, button_state,
                   outcome, last_op>>

begin_column_visibility(p, column_vars) ==
    /\ CanBegin(p)
    /\ button_state = "normal"
    /\ column_headers # <<>>
    /\ hidden_columns' = { i \in DOMAIN column_vars : ~column_vars[i] }
    /\ loads' = [loads EXCEPT ![p] = Calling(p, "apply_column_visibility")]
    /\ UNCHANGED <<disk, file_path, page_size, current_page, has_next_page,
                   delimiter, column_headers, tree_columns, tree_headings,
                   tree_rows, page_label, button_state, outcome, last_op>>

ConcNext ==
    \/ \E p \in Procs : \E path \in (DOMAIN disk) \cup {""} :
           begin_open_file(p, path)
    \/ begin_next_page("ui")
    \/ begin_prev_page("ui")
    \/ \E text \in PageSizeTexts : begin_page_size_changed("ui", text)
    \/ \E selected_display \in DisplayChoices :
           begin_delimiter_changed("ui", selected_display)
    \/ \E column_vars \in [0..(Len(column_headers) - 1) -> BOOLEAN] :
           begin_column_visibility("ui", column_vars)
    \/ \E p \in Procs :
        \/ load_enter(p)
        \/ load_open(p)
        \/ load_header(p)
        \/ load_setup(p)
        \/ load_skip(p)
        \/ load_row(p)
        \/ load_exit(p)
        \/ handler_return(p)

SpecConc == GoodInit /\ [][ConcNext]_vars

(***************************************************************************)
(* Properties of a single page load, checked under SpecLoad.               *)
(***************************************************************************)
\* the file the load reads, its header and its data records
TheFile == disk[file_path]

DataCount == Len(TheFile.lines) - 1

\* the data record at zero-based offset k, as csv.reader gives it
DataRecord(k) == ParseRecord(TheFile.lines[k + 2], delimiter)

FileHeader == ParseRecord(TheFile.lines[1], delimiter)

PageStart == current_page * page_size

\* the load ran and returned normally
Loaded == last_op = "_load_page" /\ outcome = "ok"

\* the file opens, has a header, and no read of it fails
GoodFile == TheFile.readable /\ Len(TheFile.lines) >= 1 /\ TheFile.failAt = 0

\* C1: a page load that completes shows at most page_size rows, and when it
\* shows fewer than page_size rows the has_next flag is false.
C1_RowsWithinPageSize ==
    Loaded =>
        /\ Len(tree_rows) <= page_size
        /\ (Len(tree_rows) < page_size => ~has_next_page)

C1_Witness ==
    /\ Loaded
    /\ tree_rows # <<>>
    /\ Len(tree_rows) < page_size
    /\ ~has_next_page

\* C2: after a load that completes, has_next is true exactly when the file
\* holds more than (page_index + 1) * page_size data records; a file of
\* exactly page_size data records gives all of them with has_next false on
\* page 0 and no row with has_next false on page 1.
C2_HasNextIffMoreRecords ==
    Loaded =>
        /\ has_next_page = (DataCount > (current_page + 1) * page_size)
        /\ (DataCount = page_size /\ current_page = 0 =>
                Len(tree_rows) = DataCount /\ ~has_next_page)
        /\ (DataCount = page_size /\ current_page = 1 =>
                tree_rows = <<>> /\ ~has_next_page)

C2_Witness ==
    /\ Loaded
    /\ DataCount = page_size
    /\ current_page = 1
    /\ tree_rows = <<>>
    /\ ~has_next_page

\* the cell a record shows in column index c: its field there, or the empty
\* string when it has none
ExpectedCell(rec, c) == IF c < Len(rec) THEN rec[c + 1] ELSE EmptyStr

\* C3: a load that completes shows exactly the data records at offsets
\* page_index * page_size .. min((page_index + 1) * page_size, N) - 1, in file
\* order, every record counting as one whatever its number of fields.
C3_PageIsTheRecordsAtItsOffsets ==
    Loaded =>
        /\ Len(tree_rows) =
               Max(0, Min((current_page + 1) * page_size, DataCount) - PageStart)
        /\ \A k \in 1..Len(tree_rows) :
               /\ PageStart + k - 1 < DataCount
               /\ \A j \in 1..Len(tree_columns) :
                      tree_rows[k].values[j] =
                          ExpectedCell(DataRecord(PageStart + k - 1), tree_columns[j])

\* a later page is shown, and a record skipped to reach it differs from the
\* header in its number of fields
C3_Witness ==
    /\ Loaded
    /\ current_page >= 1
    /\ tree_rows # <<>>
    /\ tree_columns # <<>>
    /\ \E k \in 0..(PageStart - 1) : Len(DataRecord(k)) # Len(FileHeader)

\* C4: loading a page that starts at or beyond the last data record of a
\* file that reads without error returns normally, with no row and has_next
\* false.
C4_PageBeyondDataIsEmpty ==
    (last_op = "_load_page" /\ GoodFile /\ PageStart >= DataCount) =>
        /\ outcome = "ok"
        /\ tree_rows = <<>>
        /\ ~has_next_page

\* the skip loop ran into the end of the file
C4_Witness ==
    /\ last_op = "_load_page"
    /\ GoodFile
    /\ DataCount >= 1
    /\ PageStart > DataCount
    /\ outcome = "ok"
    /\ tree_rows = <<>>

\* the header indices that are not hidden
VisibleIndices == { i \in 0..(Len(FileHeader) - 1) : i \notin hidden_columns }

\* the values of the rows shown, in order
RowValues == [k \in 1..Len(tree_rows) |-> tree_rows[k].values]

\* C5: a data row with fewer fields than the header is shown with one value
\* per visible header column: the empty string in every visible column at or
\* beyond the row's field count, the row's own field in the others.
C5_ShortRowsArePadded ==
    Loaded =>
        \A k \in 1..Len(tree_rows) :
            LET rec == DataRecord(PageStart + k - 1)
                shown == tree_rows[k].values
            IN Len(rec) < Len(FileHeader) =>
                   /\ Len(shown) = Cardinality(VisibleIndices)
                   /\ Range(tree_columns) = VisibleIndices
                   /\ \A j \in 1..Len(shown) :
                          shown[j] = IF tree_columns[j] >= Len(rec) THEN EmptyStr
                                     ELSE rec[tree_columns[j] + 1]

\* a short row shown with a column hidden, a padded cell and a cell of its own
C5_Witness ==
    /\ Loaded
    /\ hidden_columns \cap (0..(Len(FileHeader) - 1)) # {}
    /\ \E k \in 1..Len(tree_rows) :
           LET rec == DataRecord(PageStart + k - 1)
           IN /\ Len(rec) < Len(FileHeader)
              /\ \E j \in 1..Len(tree_columns) : tree_columns[j] >= Len(rec)
              /\ \E j \in 1..Len(tree_columns) :
                     tree_columns[j] < Len(rec) /\ tree_rows[k].values[j] # EmptyStr

\* the load of the file a,b,c / 1,2,3 / 4,5 / 6,7,8,9 with delimiter comma,
\* page size 2 and no hidden column
RaggedScenario ==
    /\ last_op = "_load_page"
    /\ TheFile = File(RaggedLines, 0)
    /\ delimiter = ","
    /\ page_size = 2
    /\ hidden_columns = {}

\* C6: in that scenario page 0 shows [1,2,3] and [4,5,""] with has_next true,
\* and page 1 shows the single row [6,7,8] with has_next false.
C6_RaggedScenarioPages ==
    RaggedScenario =>
        /\ outcome = "ok"
        /\ (current_page = 0 =>
                /\ RowValues = << << <<"1">>, <<"2">>, <<"3">> >>,
                                  << <<"4">>, <<"5">>, EmptyStr >> >>
                /\ has_next_page)
        /\ (current_page = 1 =>
                /\ RowValues = << << <<"6">>, <<"7">>, <<"8">> >> >>
                /\ ~has_next_page)

C6_Witness ==
    /\ RaggedScenario
    /\ current_page = 1
    /\ Len(tree_rows) = 1
    /\ ~has_next_page

\* a record as read from the file, padded to the length of the header
PaddedAsRead(rec) ==
    [i \in 1..Max(Len(rec), Len(FileHeader)) |-> ExpectedCell(rec, i - 1)]

\* what C7 states for every hidden-column set but the empty one
C7_HiddenColumnsPart ==
    /\ Range(tree_columns) = VisibleIndices
    /\ \A j \in 1..Len(tree_columns) :
           /\ tree_headings[j] = FileHeader[tree_columns[j] + 1]
           /\ \A i \in 1..(j - 1) : tree_columns[i] < tree_columns[j]
    /\ (VisibleIndices = {} =>
            /\ tree_headings = <<>>
            /\ \A k \in 1..Len(tree_rows) : tree_rows[k].values = <<>>)

\* C7 as stated: with no column hidden the header and the rows shown equal
\* the header and the rows as read and padded, rows longer than the header
\* included; with every column hidden the header and every row are empty;
\* in between the visible columns are the non-hidden indices in ascending
\* order.
C7_AsStated ==
    Loaded =>
        /\ C7_HiddenColumnsPart
        /\ (hidden_columns = {} =>
                /\ tree_headings = FileHeader
                /\ \A k \in 1..Len(tree_rows) :
                       tree_rows[k].values = PaddedAsRead(DataRecord(PageStart + k - 1)))

\* C7, amended: with no column hidden the header shown is the header and
\* every row shown is the row as read, padded to the length of the header
\* when shorter and cut to its first header-length fields when longer; the
\* rest as stated.
C7_ProjectionCutsToHeader ==
    Loaded =>
        /\ C7_HiddenColumnsPart
        /\ (hidden_columns = {} =>
                /\ tree_headings = FileHeader
                /\ \A k \in 1..Len(tree_rows) :
                       tree_rows[k].values =
                           SubSeq(PaddedAsRead(DataRecord(PageStart + k - 1)),
                                  1, Len(FileHeader)))

\* a row longer than the header is shown with no column hidden
C7_Witness ==
    /\ Loaded
    /\ hidden_columns = {}
    /\ FileHeader # <<>>
    /\ \E k \in 1..Len(tree_rows) :
           /\ Len(DataRecord(PageStart + k - 1)) > Len(FileHeader)
           /\ Len(tree_rows[k].values) = Len(FileHeader)

\* the hidden indices that are indices of the header
HiddenInRange == hidden_columns \cap (0..(Len(FileHeader) - 1))

\* C8: with hidden indices outside the header the load completes and shows
\* the header and rows that the load without those indices shows.
C8_OutOfRangeHiddenIgnored ==
    (last_op = "_load_page" /\ GoodFile /\ hidden_columns # HiddenInRange) =>
        /\ outcome = "ok"
        /\ Range(tree_columns) = (0..(Len(FileHeader) - 1)) \ HiddenInRange
        /\ LET other == LoadPage(TheFile, delimiter, page_size, current_page,
                                 HiddenInRange, display)
           IN /\ other.outcome = "ok"
              /\ other.tree_columns = tree_columns
              /\ other.tree_headings = tree_headings
              /\ other.tree_rows = tree_rows
              /\ other.has_next_page = has_next_page

\* hidden indices within and beyond the header, with rows and columns shown
C8_Witness ==
    /\ Loaded
    /\ HiddenInRange # {}
    /\ hidden_columns # HiddenInRange
    /\ tree_rows # <<>>
    /\ tree_columns # <<>>

(***************************************************************************)
(* Properties of the viewer, checked under Spec.                           *)
(***************************************************************************)
\* text is a numeral: blanks, an optional sign, one or more digits, blanks
Numeral(text) ==
    \E i, j \in 1..Len(text) :
        /\ i <= j
        /\ \A k \in 1..Len(text) :
               IF k < i \/ k > j THEN text[k] = " "
               ELSE \/ IsDigit(text[k])
                    \/ (k = i /\ i < j /\ text[k] \in {"+", "-"})

\* text is a numeral of a value <= 0
NonPositiveNumeral(text) ==
    /\ Numeral(text)
    /\ \/ \E k \in 1..Len(text) : text[k] = "-"
       \/ \A k \in 1..Len(text) : IsDigit(text[k]) => text[k] = "0"

\* the page shown: the columns, their headings and the rows of the tree
shown_page == <<tree_columns, tree_headings, tree_rows>>

\* C9: applying a page size that is not a number or not positive changes
\* neither page_size nor current_page, has_next_page or the page shown, and
\* starts no load; page_size > 0 in every reachable state.
C9_InvalidPageSizeRejected ==
    /\ [](page_size > 0)
    /\ [][\A text \in PageSizeTexts :
             (on_page_size_changed(text)
              /\ (~Numeral(text) \/ NonPositiveNumeral(text)))
             => /\ page_size' = page_size
                /\ current_page' = current_page
                /\ has_next_page' = has_next_page
                /\ shown_page' = shown_page
                /\ column_headers' = column_headers
                /\ outcome' = "none"]_vars

\* a rejected Apply with a file loaded, a page size applied before and rows
\* shown
C9_Witness ==
    /\ last_op = "on_page_size_changed"
    /\ outcome = "none"
    /\ file_path = "ragged.csv"
    /\ page_size # DefaultPageSize
    /\ tree_rows # <<>>

\* path names a file that opens and holds no line
EmptyFile(path) ==
    path # None /\ disk[path].readable /\ disk[path].lines = <<>>

\* C10: a load of an empty file ends in an error, and the page shown before
\* it (columns and rows) is the page shown after it.
C10_EmptyFileKeepsPage ==
    [][(EmptyFile(file_path') /\ outcome' # "none")
       => (outcome' = "error" /\ shown_page' = shown_page)]_vars

\* an empty file was opened while a page with rows was shown
C10_Witness ==
    /\ last_op = "open_file"
    /\ EmptyFile(file_path)
    /\ outcome = "error"
    /\ tree_rows # <<>>
    /\ tree_columns # <<>>

\* path names a file that opens and whose header is read, and a later read
\* of which raises
FailsAfterHeader(path) ==
    /\ path # None
    /\ disk[path].readable
    /\ disk[path].failAt > 1
    /\ disk[path].failAt <= Len(disk[path].lines)

\* C11: a load that fails by a read error after the header was read leaves
\* the columns and the rows shown as they were before the load.
C11_ReadErrorKeepsPage ==
    [][(FailsAfterHeader(file_path') /\ outcome' = "error")
       => shown_page' = shown_page]_vars

\* C12: a handler whose load fails leaves current_page as it was.
C12_FailedLoadKeepsPageIndex ==
    [][(outcome' = "error") => current_page' = current_page]_vars

\* a display before any load
BlankDisplay ==
    [column_headers |-> <<>>, button_state |-> "disabled", tree_columns |-> <<>>,
     tree_headings |-> <<>>, tree_rows |-> <<>>, has_next_page |-> FALSE,
     outcome |-> "none"]

\* C13: what a completed load shows (header, rows in order, has_next) is
\* what a load of the same file with the same delimiter, page size, page
\* index and hidden columns shows when nothing was loaded before it, whatever
\* handlers and loads ran in between.
C13_LoadIsDeterminedByItsArguments ==
    (outcome = "ok" /\ file_path # None) =>
        LET alone == LoadPage(disk[file_path], delimiter, page_size,
                              current_page, hidden_columns, BlankDisplay)
        IN /\ alone.outcome = "ok"
           /\ alone.column_headers = column_headers
           /\ alone.tree_columns = tree_columns
           /\ alone.tree_headings = tree_headings
           /\ alone.tree_rows = tree_rows
           /\ alone.has_next_page = has_next_page

\* the first page is loaded again by prev_page, after a later page, with a
\* page size and hidden columns applied in between
C13_Witness ==
    /\ last_op = "prev_page"
    /\ outcome = "ok"
    /\ current_page = 0
    /\ page_size # DefaultPageSize
    /\ hidden_columns # {}
    /\ tree_rows # <<>>
    /\ has_next_page

\* C16: next_page adds one to current_page and reloads only when
\* has_next_page is true, prev_page subtracts one and reloads only when
\* current_page > 0; otherwise both leave current_page and the page shown
\* unchanged; current_page >= 0 in every reachable state.
C16_NavigationIsGuarded ==
    /\ [](current_page >= 0)
    /\ [][/\ next_page =>
                IF has_next_page
                THEN current_page' = current_page + 1 /\ outcome' # "none"
                ELSE /\ current_page' = current_page
                     /\ shown_page' = shown_page
                     /\ outcome' = "none"
          /\ prev_page =>
                IF current_page > 0
                THEN current_page' = current_page - 1 /\ outcome' # "none"
                ELSE /\ current_page' = current_page
                     /\ shown_page' = shown_page
                     /\ outcome' = "none"]_vars

\* Previous Page was refused on the first page, with rows shown
C16_Witness ==
    /\ last_op = "prev_page"
    /\ outcome = "none"
    /\ current_page = 0
    /\ file_path # None
    /\ tree_rows # <<>>

\* the number of data records of the file named path
RecordsIn(path) == Len(disk[path].lines) - 1

\* C17: choosing a file sets current_page to 0 and empties hidden_columns
\* before the load; applying a positive page size sets current_page to 0
\* before the load, which runs only if a file is set; cancelling the file
\* dialog changes neither file_path, current_page, hidden_columns,
\* has_next_page nor the page shown.
C17_NewFileOrPageSizeResetsPosition ==
    [][/\ \A path \in DOMAIN disk :
              open_file(path) =>
                  /\ file_path' = path
                  /\ current_page' = 0
                  /\ hidden_columns' = {}
                  /\ outcome' # "none"
                  /\ (outcome' = "ok" =>
                          /\ tree_columns' =
                                 [k \in 1..Len(column_headers') |-> k - 1]
                          /\ Len(tree_rows') = Min(page_size, RecordsIn(path)))
       /\ open_file("") =>
              /\ file_path' = file_path
              /\ current_page' = current_page
              /\ hidden_columns' = hidden_columns
              /\ has_next_page' = has_next_page
              /\ shown_page' = shown_page
       /\ \A text \in PageSizeTexts :
              (on_page_size_changed(text)
               /\ Numeral(text) /\ ~NonPositiveNumeral(text)) =>
                  /\ current_page' = 0
                  /\ (outcome' # "none") = (file_path # None)
                  /\ (outcome' = "ok" =>
                          Len(tree_rows') = Min(page_size', RecordsIn(file_path)))
      ]_vars

\* a file was chosen while a later page was shown with a column hidden
C17_Witness ==
    /\ last_op = "open_file"
    /\ outcome = "ok"
    /\ current_page = 0
    /\ hidden_columns = {}
    /\ page_label # PageText(1)
    /\ tree_rows # <<>>

\* the delimiter whose display text is selected_display
DelimiterOf(selected_display) ==
    CHOOSE delim \in Delimiters :
        \E i \in 1..Len(delimiter_options) :
            delimiter_options[i] = <<delim, selected_display>>

\* C18: a delimiter change sets the delimiter and leaves file_path,
\* page_size, current_page and hidden_columns unchanged; it reloads only
\* when a file is set, and with no file set changes nothing else.
C18_DelimiterChangeKeepsPosition ==
    [][\A selected_display \in DisplayChoices :
           on_delimiter_changed(selected_display) =>
               /\ delimiter' = DelimiterOf(selected_display)
               /\ file_path' = file_path
               /\ page_size' = page_size
               /\ current_page' = current_page
               /\ hidden_columns' = hidden_columns
               /\ (file_path = None =>
                       /\ outcome' = "none"
                       /\ shown_page' = shown_page
                       /\ has_next_page' = has_next_page
                       /\ column_headers' = column_headers)
               /\ (file_path # None => outcome' # "none")]_vars

\* the delimiter was changed on a later page with a column hidden, and the
\* page was loaded again
C18_Witness ==
    /\ last_op = "on_delimiter_changed"
    /\ outcome = "ok"
    /\ delimiter = ";"
    /\ current_page > 0
    /\ hidden_columns # {}
    /\ tree_rows # <<>>

\* C19: the page label shows "Page k" with k = current_page + 1.
C19_LabelShowsCurrentPage == page_label = PageText(current_page + 1)

(***************************************************************************)
(* Properties of the viewer on files that read without error, checked      *)
(* under SpecGood.                                                         *)
(***************************************************************************)
\* C20: when every load succeeds the viewer is never on an empty page past
\* the data: whenever current_page > 0 the page shown has a row, and
\* current_page * page_size is less than the number of data records of the
\* current file.
C20_NeverPastTheData ==
    current_page > 0 =>
        /\ file_path # None
        /\ current_page * page_size < RecordsIn(file_path)
        /\ tree_rows # <<>>

\* Next Page reached the last page of the file, which shows a row
C20_Witness ==
    /\ last_op = "next_page"
    /\ outcome = "ok"
    /\ current_page > 0
    /\ (current_page + 1) * page_size >= RecordsIn(file_path)
    /\ tree_rows # <<>>
    /\ ~has_next_page

(***************************************************************************)
(* Properties of a page load taken statement by statement, checked under   *)
(* SpecSteps.                                                              *)
(***************************************************************************)
\* what the load of thread p shows when it runs from entry to exit with the
\* attribute values it found at its entry, and with nothing loaded before
Alone(p) ==
    LET a == loads[p].args
    IN LoadPage(disk[a.path], a.delim, a.psize, a.page, a.hidden, BlankDisplay)

\* the display shows what the load of thread p shows when run alone
ShowsAlone(p) ==
    LET alone == Alone(p)
    IN /\ alone.outcome = "ok"
       /\ alone.column_headers = column_headers
       /\ alone.tree_columns = tree_columns
       /\ alone.tree_headings = tree_headings
       /\ alone.tree_rows = tree_rows
       /\ alone.has_next_page = has_next_page

\* the load taken statement by statement, with no other thread running,
\* ends as LoadPage computes it
StepsAgreeWithLoadPage ==
    loads["ui"].pc = "idle" =>
        LET alone == Alone("ui")
        IN /\ alone.outcome = outcome
           /\ outcome = "ok" => ShowsAlone("ui")
           /\ outcome = "error" =>
                 /\ alone.column_headers = column_headers
                 /\ alone.tree_rows = tree_rows

\* C14: when a thread is not inside a load (it is in no handler, or its
\* _load_page has returned or raised), the file it opened in the load is
\* closed, whichever way the load was left.
C14_HandleClosedOnEveryExit ==
    \A p \in Procs :
        loads[p].pc \in {"idle", "return"} => ~loads[p].handle

\* a load has inserted a row and was then left by a read error, with its
\* file closed
C14_Witness ==
    /\ loads["ui"].pc = "return"
    /\ loads["ui"].how = "error"
    /\ loads["ui"].path # None
    /\ loads["ui"].row_count > 0
    /\ ~loads["ui"].handle

(***************************************************************************)
(* Properties of the opener thread and the main thread, checked under      *)
(* SpecConc.                                                               *)
(***************************************************************************)
\* the last load of thread p has completed
Completed(p) == loads[p].pc = "idle" /\ loads[p].how = "ok"

\* C15: when no load is in progress, the page shown (column headers, rows,
\* has_next_page) is what one of the completed loads shows when run alone,
\* however the loads of the opener thread and of the main thread were
\* interleaved.
C15_ConcurrentLoadsAreSafe ==
    ((\A p \in Procs : loads[p].pc = "idle") /\ (\E p \in Procs : Completed(p)))
        => \E p \in Procs : Completed(p) /\ ShowsAlone(p)

====
